---- MODULE Spec2Model ----
(***************************************************************************)
(* UpSound: a Telegram bot that extracts a Yandex.Music track identifier   *)
(* from a link, queries the provider and formats the metadata.             *)
(*                                                                         *)
(* Strings the code parses or builds character by character are sequences  *)
(* of one-character strings.  Python's None is the value None below.       *)
(***************************************************************************)
EXTENDS Integers, Sequences, FiniteSets, TLC

VARIABLES
    input,      \* argument of the pure function under check
    output,     \* its result, or Pending before the call
    user_data,  \* context.user_data: per-user dict, here its 'track_id' entry
    presented,  \* callback_data of the inline buttons shown so far
    last        \* the update handled last and what its handler did

vars == <<input, output, user_data, presented, last>>

None == <<"<None>">>
Pending == [done |-> FALSE]
Done(val) == [done |-> TRUE, val |-> val]

Truthy(s) == s # None /\ s # <<>>

(***************************************************************************)
(* Characters                                                              *)
(***************************************************************************)
DigitChars == <<"0", "1", "2", "3", "4", "5", "6", "7", "8", "9">>
Digits == {DigitChars[i] : i \in 1..10}

IsDigit(c) == c \in Digits

\* s has the literal lit at index i
HasAt(s, i, lit) ==
    /\ i >= 1
    /\ i + Len(lit) - 1 <= Len(s)
    /\ SubSeq(s, i, i + Len(lit) - 1) = lit

RECURSIVE DigitRun(_, _)
\* length of the longest run of digits of s that starts at index i: what a
\* greedy \d+ consumes when the next pattern element cannot be a digit
DigitRun(s, i) ==
    IF i >= 1 /\ i <= Len(s) /\ IsDigit(s[i]) THEN 1 + DigitRun(s, i + 1) ELSE 0

(***************************************************************************)
(* extract_track_id                                                        *)
(***************************************************************************)
LitTrack     == <<"t", "r", "a", "c", "k", "/">>
LitAlbum     == <<"a", "l", "b", "u", "m", "/">>
LitSlashTrack == <<"/", "t", "r", "a", "c", "k", "/">>
LitPlaylists == <<"p", "l", "a", "y", "l", "i", "s", "t", "s", "/">>
LitSlash     == <<"/">>
LitTrackIdEq == <<"?", "t", "r", "a", "c", "k", "I", "d", "=">>

\* as PatternTrackAt, but with a lazy quantifier, r'track/(\d+?)'
PatternTrackAt_lazy(s, i) ==
    LET g == i + Len(LitTrack)
    IN  IF HasAt(s, i, LitTrack) /\ DigitRun(s, g) >= 1 THEN SubSeq(s, g, g) ELSE None

\* r'track/(\d+)' anchored at index i: the captured group, or None
PatternTrackAt(s, i) ==
    LET g == i + Len(LitTrack)
        n == DigitRun(s, g)
    IN  IF HasAt(s, i, LitTrack) /\ n >= 1 THEN SubSeq(s, g, g + n - 1) ELSE None

\* r'album/\d+/track/(\d+)' anchored at index i
PatternAlbumAt(s, i) ==
    LET a  == i + Len(LitAlbum)
        na == DigitRun(s, a)
        t  == a + na
        g  == t + Len(LitSlashTrack)
        n  == DigitRun(s, g)
    IN  IF HasAt(s, i, LitAlbum) /\ na >= 1 /\ HasAt(s, t, LitSlashTrack) /\ n >= 1
        THEN SubSeq(s, g, g + n - 1) ELSE None

\* r'playlists/\d+/\d+\?trackId=(\d+)' anchored at index i
PatternPlaylistAt(s, i) ==
    LET a  == i + Len(LitPlaylists)
        na == DigitRun(s, a)
        b  == a + na + Len(LitSlash)
        nb == DigitRun(s, b)
        q  == b + nb
        g  == q + Len(LitTrackIdEq)
        n  == DigitRun(s, g)
    IN  IF /\ HasAt(s, i, LitPlaylists) /\ na >= 1
           /\ HasAt(s, a + na, LitSlash) /\ nb >= 1
           /\ HasAt(s, q, LitTrackIdEq) /\ n >= 1
        THEN SubSeq(s, g, g + n - 1) ELSE None

PatternAt(p, s, i) ==
    CASE p = 1 -> PatternTrackAt(s, i)
      [] p = 2 -> PatternAlbumAt(s, i)
      [] p = 3 -> PatternPlaylistAt(s, i)

\* re.search(pattern, url): group 1 of the leftmost match, or None
re_search(p, s) ==
    LET hits == {i \in 1..Len(s) : PatternAt(p, s, i) # None}
    IN  IF hits = {} THEN None
        ELSE PatternAt(p, s, CHOOSE i \in hits : \A j \in hits : i <= j)

patterns == <<1, 2, 3>>

RECURSIVE extract_from(_, _)
\* the for loop over patterns, from the k-th pattern on
extract_from(url, k) ==
    IF k > Len(patterns) THEN None
    ELSE IF re_search(patterns[k], url) # None THEN re_search(patterns[k], url)
    ELSE extract_from(url, k + 1)

extract_track_id(url) == extract_from(url, 1)

(***************************************************************************)
(* format_duration                                                         *)
(***************************************************************************)
RECURSIVE NatToStr(_)
NatToStr(n) ==
    IF n < 10 THEN <<DigitChars[n + 1]>>
    ELSE NatToStr(n \div 10) \o <<DigitChars[(n % 10) + 1]>>

\* str(n) of an int
IntToStr(n) == IF n < 0 THEN <<"-">> \o NatToStr(-n) ELSE NatToStr(n)

\* as Pad02d, but without the width, f"{n}"
Pad02d_nowidth(n) == IntToStr(n)

\* f"{n:02d}": zero-padded to a minimum width of two
Pad02d(n) == IF Len(IntToStr(n)) < 2 THEN <<"0">> \o IntToStr(n) ELSE IntToStr(n)

format_duration(seconds) ==
    LET minutes == seconds \div 60
        secs    == seconds % 60
    IN  IntToStr(minutes) \o <<":">> \o Pad02d(secs)

(***************************************************************************)
(* The bot's state before any update                                       *)
(***************************************************************************)
Users == {"u1", "u2"}

NoUpdate == [handler |-> "none"]

BotInit ==
    /\ user_data = [u \in Users |-> None]
    /\ presented = {}
    /\ last = NoUpdate

BotVars == <<user_data, presented, last>>

(***************************************************************************)
(* extract_track_id applied to link texts                                  *)
(***************************************************************************)
MaxPad == 2   \* pieces of surrounding text on each side of the link

Id123456 == <<"1", "2", "3", "4", "5", "6">>

FormTrack    == <<"t", "r", "a", "c", "k", "/", "1", "2", "3", "4", "5", "6">>
FormAlbum    == <<"a", "l", "b", "u", "m", "/", "1", "/", "t", "r", "a", "c", "k", "/", "1", "2", "3", "4", "5", "6">>
FormPlaylist == <<"p", "l", "a", "y", "l", "i", "s", "t", "s", "/", "1", "/", "2", "?", "t", "r", "a", "c", "k", "I", "d", "=", "1", "2", "3", "4", "5", "6">>

Forms == {FormTrack, FormAlbum, FormPlaylist}
Cores == Forms \cup {<<>>}

PadPieces == {
    <<"7">>,
    <<" ">>,
    <<"t", "r", "a", "c", "k", "/">>,
    <<"t", "r", "a", "c", "k", "/", "9">>,
    <<"p", "l", "a", "y", "l", "i", "s", "t", "s", "/", "3", "/", "4", "?", "t", "r", "a", "c", "k", "I", "d", "=", "8">> }

RECURSIVE Pads(_)
Pads(n) == IF n = 0 THEN {<<>>} ELSE Pads(n - 1) \cup {p \o q : p \in Pads(n - 1), q \in PadPieces}

UrlOf(in) == in.pre \o in.core \o in.suf

InitExtract ==
    /\ input \in [pre : Pads(MaxPad), core : Cores, suf : Pads(MaxPad)]
    /\ output = Pending
    /\ BotInit

\* a message text matched by the first pattern
ExtractByTrack ==
    /\ ~output.done
    /\ re_search(1, UrlOf(input)) # None
    /\ output' = Done(extract_track_id(UrlOf(input)))
    /\ UNCHANGED <<input, BotVars>>

\* a message text matched only by the playlist pattern
ExtractByPlaylist ==
    /\ ~output.done
    /\ re_search(1, UrlOf(input)) = None
    /\ re_search(3, UrlOf(input)) # None
    /\ output' = Done(extract_track_id(UrlOf(input)))
    /\ UNCHANGED <<input, BotVars>>

\* a message text no pattern matches
ExtractNothing ==
    /\ ~output.done
    /\ re_search(1, UrlOf(input)) = None
    /\ re_search(3, UrlOf(input)) = None
    /\ output' = Done(extract_track_id(UrlOf(input)))
    /\ UNCHANGED <<input, BotVars>>

NextExtract == ExtractByTrack \/ ExtractByPlaylist \/ ExtractNothing

SpecExtract == InitExtract /\ [][NextExtract]_vars

\* index at which the text has 'track/' followed by a digit
TrackLinkAt(s, i) ==
    /\ HasAt(s, i, LitTrack)
    /\ i + Len(LitTrack) <= Len(s)
    /\ IsDigit(s[i + Len(LitTrack)])

Contains(s, lit) == \E i \in 1..Len(s) : HasAt(s, i, lit)

\* where the form's own identifier-bearing 'track/' sits in the text
OwnTrackIdx(in) ==
    IF in.core = FormTrack THEN Len(in.pre) + 1
    ELSE IF in.core = FormAlbum THEN Len(in.pre) + 9
    ELSE 0

\* the surrounding text neither extends the identifier with a further digit
\* nor holds a link that is found before the form's own
FormStandsFirst(in) ==
    /\ in.core \in Forms
    /\ (in.suf = <<>> \/ ~IsDigit(in.suf[1]))
    /\ IF in.core = FormPlaylist
       THEN /\ \A i \in 1..Len(UrlOf(in)) : ~TrackLinkAt(UrlOf(in), i)
            /\ ~Contains(in.pre, <<"t", "r", "a", "c", "k", "I", "d", "=">>)
       ELSE \A i \in 1..(OwnTrackIdx(in) - 1) : ~TrackLinkAt(UrlOf(in), i)

\* C5 (as stated): every text that contains one of the three forms, whatever
\* surrounds it, yields exactly "123456".
C5_AnySurrounding ==
    (output.done /\ input.core \in Forms) => output.val = Id123456

\* C5 (amended): a text that contains one of the three forms yields exactly
\* "123456" when the identifier is not directly followed by another digit and
\* no 'track/<digits>' link (for the playlist form: none anywhere, and no
\* earlier 'trackId=') is found before the form's own; the patterns are tried
\* in the order 1, 2, 3 and the first one that matches decides.
C5_FormStandsFirst ==
    output.done =>
        /\ FormStandsFirst(input) => output.val = Id123456
        /\ output.val = (IF re_search(1, UrlOf(input)) # None THEN re_search(1, UrlOf(input))
                     ELSE IF re_search(2, UrlOf(input)) # None THEN re_search(2, UrlOf(input))
                     ELSE re_search(3, UrlOf(input)))

C5_Witness ==
    /\ output.done
    /\ output.val = Id123456
    /\ input.core = FormPlaylist
    /\ input.pre # <<>>
    /\ input.suf # <<>>
    /\ FormStandsFirst(input)

(***************************************************************************)
(* format_duration applied to second counts                                *)
(***************************************************************************)
MaxSeconds == 3700

InitDuration ==
    /\ input \in (-MaxSeconds)..MaxSeconds
    /\ output = Pending
    /\ BotInit

FormatDuration ==
    /\ ~output.done
    /\ output' = Done(format_duration(input))
    /\ UNCHANGED <<input, BotVars>>

NextDuration == FormatDuration

SpecDuration == InitDuration /\ [][NextDuration]_vars

DigitValue(c) == CHOOSE d \in 0..9 : DigitChars[d + 1] = c

RECURSIVE DecimalValue(_)
DecimalValue(s) ==
    IF s = <<>> THEN 0
    ELSE 10 * DecimalValue(SubSeq(s, 1, Len(s) - 1)) + DigitValue(s[Len(s)])

AllDigits(s) == s # <<>> /\ \A i \in 1..Len(s) : IsDigit(s[i])

\* a decimal numeral without padding: no leading zero, an optional minus sign
Unpadded(s) ==
    LET mag == IF s # <<>> /\ s[1] = "-" THEN Tail(s) ELSE s
    IN  /\ AllDigits(mag)
        /\ (Len(mag) > 1 => mag[1] # "0")

SignedValue(s) == IF s[1] = "-" THEN 0 - DecimalValue(Tail(s)) ELSE DecimalValue(s)

\* C6: format_duration yields, for every integer second count, the unpadded
\* quotient by 60, a colon and the remainder as exactly two digits in 00..59,
\* without hour rollover (0 -> 0:00, 59 -> 0:59, 60 -> 1:00, 125 -> 2:05,
\* 3600 -> 60:00).
C6_MinutesColonSeconds ==
    output.done =>
        /\ Cardinality({i \in 1..Len(output.val) : output.val[i] = ":"}) = 1
        /\ LET p == CHOOSE i \in 1..Len(output.val) : output.val[i] = ":"
               m == SubSeq(output.val, 1, p - 1)
               s == SubSeq(output.val, p + 1, Len(output.val))
           IN  /\ Unpadded(m)
               /\ Len(s) = 2
               /\ AllDigits(s)
               /\ DecimalValue(s) \in 0..59
               /\ 60 * SignedValue(m) + DecimalValue(s) = input
        /\ (input = 0    => output.val = <<"0", ":", "0", "0">>)
        /\ (input = 59   => output.val = <<"0", ":", "5", "9">>)
        /\ (input = 60   => output.val = <<"1", ":", "0", "0">>)
        /\ (input = 125  => output.val = <<"2", ":", "0", "5">>)
        /\ (input = 3600 => output.val = <<"6", "0", ":", "0", "0">>)

C6_Witness ==
    /\ input = 3600
    /\ output.done
    /\ output.val = <<"6", "0", ":", "0", "0">>

(***************************************************************************)
(* Provider objects (yandex_music).  An optional attribute is present when *)
(* its name is in attrs (hasattr).  Cyrillic literals of the code are      *)
(* written transliterated with the same number of characters.              *)
(***************************************************************************)
MaxArtists == 2   \* artists of a track
MaxSimilar == 6   \* tracks the provider reports as similar

UnknownAlbum == <<"N", "e", "i", "z", "v", "e", "s", "t", "n", "y", "j", " ", "a", "l", "'", "b", "o", "m">>
Unknown      == <<"N", "e", "i", "z", "v", "e", "s", "t", "n", "o">>
NotGiven     == <<"N", "e", " ", "u", "k", "a", "z", "a", "n">>

Min(a, b) == IF a <= b THEN a ELSE b

RECURSIVE Join(_, _)
\* sep.join(parts)
Join(parts, sep) ==
    IF parts = <<>> THEN <<>>
    ELSE IF Len(parts) = 1 THEN parts[1]
    ELSE parts[1] \o sep \o Join(Tail(parts), sep)

CommaSpace == <<",", " ">>

TrackAttrs == {"get_cover_url", "available", "available_for_premium_users",
               "lyrics_available", "file_size", "version", "content_warning",
               "explicit", "track_number", "major"}

ArtistOf(i) == [name |-> <<"A">> \o IntToStr(i), id |-> <<"9">> \o IntToStr(i)]

AlbumOf(full) ==
    [title |-> <<"H", "i", "t", "s">>,
     id    |-> <<"1", "1">>,
     attrs |-> IF full THEN {"year", "genre"} ELSE {},
     year  |-> <<"2", "0", "2", "0">>,
     genre |-> <<"p", "o", "p">>]

\* a track as yandex_client.tracks([track_id])[0] returns it
TrackOf(title, nArtists, hasAlbum, full) ==
    [title       |-> title,
     artists     |-> [i \in 1..nArtists |-> ArtistOf(i)],
     duration_ms |-> 185999,
     albums      |-> IF hasAlbum THEN <<AlbumOf(full)>> ELSE <<>>,
     attrs       |-> IF full THEN TrackAttrs ELSE {},
     cover_url   |-> <<"h", "t", "t", "p", "s", ":", "/", "/", "c", "/", "4", "2", ".", "j", "p", "g">>,
     available   |-> TRUE,
     available_for_premium_users |-> FALSE,
     lyrics_available |-> TRUE,
     file_size   |-> 3670016,
     version     |-> <<"L", "i", "v", "e">>,
     content_warning |-> None,
     explicit    |-> TRUE,
     track_number |-> <<"3">>,
     major       |-> <<"S", "o", "n", "y">>]

SongTitle == <<"S", "o", "n", "g">>

\* the outcome of one provider call: raised, returned nothing, or returned val
Raised(val)   == [st |-> "fail", val |-> val]
Nothing(val)  == [st |-> "none", val |-> val]
Returned(val) == [st |-> "ok", val |-> val]

ErrTimeout == <<"t", "i", "m", "e", "o", "u", "t">>

\* yandex_client.albums_with_tracks(album_id)
AlbumDetail(full) ==
    [volumes      |-> IF full THEN <<3, 2>> ELSE <<>>,
     attrs        |-> IF full THEN {"release_date", "label", "available"} ELSE {},
     release_date |-> <<"2", "0", "1", "9", "-", "0", "5", "-", "0", "1">>,
     label        |-> <<"L", "a", "b", "e", "l">>,
     available    |-> TRUE]

\* yandex_client.artists(artist.id)[0]
ArtistData(full) ==
    [attrs        |-> IF full THEN {"genres", "counts"} ELSE {},
     counts_attrs |-> IF full THEN {"tracks", "direct_albums"} ELSE {},
     genres       |-> IF full THEN <<<<"p", "o", "p">>, <<"r", "o", "c", "k">>>> ELSE <<>>,
     tracks       |-> <<"1", "2">>,
     direct_albums |-> <<"4">>]

SimilarTrack(i) ==
    [title   |-> <<"N", "e", "x", "t">> \o IntToStr(i),
     artists |-> <<ArtistOf(i), ArtistOf(i + 1)>>,
     id      |-> <<"7">> \o IntToStr(i)]

\* yandex_client.tracks_similar(track_id)
SimilarData(hasAttr, n) ==
    [attrs |-> IF hasAttr THEN {"similar_tracks"} ELSE {},
     similar_tracks |-> [i \in 1..n |-> SimilarTrack(i)]]

\* yandex_client.chart('world').chart.tracks
ChartItem(id, progress, listeners) ==
    [track_id |-> id, position |-> <<"1", "0">>, progress |-> progress, listeners |-> listeners]

(***************************************************************************)
(* get_basic_track_info                                                    *)
(***************************************************************************)
\* f"{(track.file_size / 1024 / 1024):.2f} MB", rounded to hundredths
FileSizeMB(bytes) ==
    LET h == (bytes * 200 + 1048576) \div 2097152
    IN  IntToStr(h \div 100) \o <<".">> \o Pad02d(h % 100) \o <<" ", "M", "B">>

ErrorInfo(where, e) == "error" :> [where |-> where, e |-> e]

IsError(info) == "error" \in DOMAIN info

\* tracks is the outcome of yandex_client.tracks([track_id])
get_basic_track_info(track_id, tracks) ==
    IF tracks.st # "ok" THEN ErrorInfo("basic", ErrTimeout)
    ELSE LET track == tracks.val IN
        [title     |-> track.title,
         artists   |-> Join([i \in 1..Len(track.artists) |-> track.artists[i].name], CommaSpace),
         duration  |-> format_duration(track.duration_ms \div 1000),
         album     |-> IF track.albums # <<>> THEN track.albums[1].title ELSE UnknownAlbum,
         year      |-> IF track.albums # <<>> /\ "year" \in track.albums[1].attrs
                       THEN track.albums[1].year ELSE Unknown,
         genre     |-> IF track.albums # <<>> /\ "genre" \in track.albums[1].attrs
                       THEN track.albums[1].genre ELSE NotGiven,
         cover_url |-> IF "get_cover_url" \in track.attrs THEN track.cover_url ELSE None,
         track_id  |-> track_id,
         album_id  |-> IF track.albums # <<>> THEN track.albums[1].id ELSE None]

(***************************************************************************)
(* get_extended_track_info                                                 *)
(***************************************************************************)
\* lines 74-83: the album section, empty when the lookup is skipped or fails
AlbumSection(track, album_id, albumCall) ==
    IF Truthy(album_id) /\ track.albums # <<>> /\ albumCall.st = "ok"
    THEN LET album == albumCall.val IN
         [album_tracks_count  |-> IF album.volumes # <<>> THEN IntToStr(album.volumes[1]) ELSE <<"0">>,
          album_release_date  |-> IF "release_date" \in album.attrs THEN album.release_date ELSE Unknown,
          album_label         |-> IF "label" \in album.attrs THEN album.label ELSE NotGiven,
          album_available     |-> IF "available" \in album.attrs THEN album.available ELSE TRUE]
    ELSE <<>>

\* lines 88-101: one entry of artists_detailed
ArtistInfo(artist, artistCall) ==
    IF artistCall.st = "ok"
    THEN LET artist_data == artistCall.val IN
         [name   |-> artist.name,
          id     |-> artist.id,
          genres |-> IF "genres" \in artist_data.attrs THEN artist_data.genres ELSE <<>>,
          tracks_count |-> IF "counts" \in artist_data.attrs /\ "tracks" \in artist_data.counts_attrs
                           THEN artist_data.tracks ELSE Unknown,
          albums_count |-> IF "counts" \in artist_data.attrs /\ "direct_albums" \in artist_data.counts_attrs
                           THEN artist_data.direct_albums ELSE Unknown]
    ELSE [name |-> artist.name, id |-> artist.id]

\* lines 106-118
SimilarSection(similarCall) ==
    IF similarCall.st = "fail" THEN "similar_tracks" :> <<>>
    ELSE IF similarCall.st = "ok" /\ "similar_tracks" \in similarCall.val.attrs
    THEN LET all == similarCall.val.similar_tracks IN
         "similar_tracks" :>
            [i \in 1..Min(5, Len(all)) |->
                [title   |-> all[i].title,
                 artists |-> Join([j \in 1..Len(all[i].artists) |-> all[i].artists[j].name], CommaSpace),
                 id      |-> all[i].id]]
    ELSE <<>>

RECURSIVE ChartMatches(_, _)
\* lines 137-144: the entries of the first 50 chart items that are this track
ChartMatches(items, track_id) ==
    IF items = <<>> THEN <<>>
    ELSE (IF items[1].track_id = track_id
          THEN <<[position |-> items[1].position,
                  progress |-> items[1].progress,
                  listeners |-> items[1].listeners]>>
          ELSE <<>>) \o ChartMatches(Tail(items), track_id)

\* lines 135-147
ChartSection(chartCall, track_id) ==
    IF chartCall.st = "ok"
    THEN "chart_positions" :> ChartMatches(SubSeq(chartCall.val, 1, Min(50, Len(chartCall.val))), track_id)
    ELSE "chart_positions" :> <<>>

\* lines 121-132
TechSection(track) ==
    [available   |-> IF "available" \in track.attrs THEN track.available ELSE TRUE,
     available_for_premium_users |->
         IF "available_for_premium_users" \in track.attrs THEN track.available_for_premium_users ELSE TRUE,
     lyrics_available |-> IF "lyrics_available" \in track.attrs THEN track.lyrics_available ELSE FALSE,
     file_size   |-> IF "file_size" \in track.attrs THEN FileSizeMB(track.file_size) ELSE Unknown,
     version     |-> IF "version" \in track.attrs THEN track.version ELSE None,
     content_warning |-> IF "content_warning" \in track.attrs THEN track.content_warning ELSE None,
     explicit    |-> IF "explicit" \in track.attrs THEN track.explicit ELSE FALSE,
     track_number |-> IF "track_number" \in track.attrs THEN track.track_number ELSE <<"0">>,
     major       |-> IF "major" \in track.attrs /\ Truthy(track.major) THEN track.major ELSE None]

\* lines 73-147: the basic info extended by the four best-effort sections
ExtendedSections(track, track_id, album_id, env, info) ==
    ChartSection(env.chart, track_id)
    @@ TechSection(track)
    @@ SimilarSection(env.similar)
    @@ ("artists_detailed" :>
          [i \in 1..Len(track.artists) |-> ArtistInfo(track.artists[i], env.artists[i])])
    @@ AlbumSection(track, album_id, env.album)
    @@ info

\* as get_extended_track_info, but without the try/except around the
\* similar-tracks lookup: its failure reaches the outer handler
get_extended_track_info_nocatch(track_id, album_id, env) ==
    IF env.main.st # "ok" \/ env.similar.st = "fail" THEN ErrorInfo("extended", ErrTimeout)
    ELSE LET track == env.main.val
             info  == get_basic_track_info(track_id, env.basic)
         IN  IF IsError(info) THEN info
             ELSE ExtendedSections(track, track_id, album_id, env, info)

\* env holds the outcome of every provider call the function makes:
\* main (line 66), basic (line 69), album, artists (one per artist), similar, chart
get_extended_track_info(track_id, album_id, env) ==
    IF env.main.st # "ok" THEN ErrorInfo("extended", ErrTimeout)
    ELSE LET track == env.main.val
             info  == get_basic_track_info(track_id, env.basic)
         IN  IF IsError(info) THEN info
             ELSE ExtendedSections(track, track_id, album_id, env, info)

(***************************************************************************)
(* format_basic_info, format_extended_info                                 *)
(*                                                                         *)
(* A formatted text is the sequence of its lines; a line is the template   *)
(* that produced it (k) and the strings interpolated into it (v).          *)
(* FixedLen(k) is the number of characters of the template itself.         *)
(***************************************************************************)
Line(k, v) == [k |-> k, v |-> v]

Text(lines) == [raised |-> FALSE, lines |-> lines]

\* a KeyError or TypeError leaves the formatter
Raise == [raised |-> TRUE, lines |-> <<>>]

\* str(None), as an f-string interpolates a None value
StrNone == <<"N", "o", "n", "e">>

Str(v) == IF v = None THEN StrNone ELSE v

Check == <<"U+2705">>
Cross == <<"U+274C">>

Glyph(b) == IF b THEN Check ELSE Cross

\* info.get(key, default)
Get(info, key, default) == IF key \in DOMAIN info THEN info[key] ELSE default

FixedLen(k) ==
    CASE k = "error_basic"    -> 44
      [] k = "error_extended" -> 47
      [] k = "b_title"     -> 10
      [] k = "b_artists"   -> 23
      [] k = "b_duration"  -> 24
      [] k = "e_title"     -> 11
      [] k = "h_basic"     -> 30
      [] k = "e_artists"   -> 26
      [] k = "e_album"     -> 21
      [] k = "e_year"      -> 18
      [] k = "e_duration"  -> 27
      [] k = "e_genre"     -> 20
      [] k = "h_artists"   -> 33
      [] k = "a_name"      -> 13
      [] k = "a_genres"    -> 13
      [] k = "a_tracks"    -> 14
      [] k = "a_albums"    -> 16
      [] k = "blank"       -> 1
      [] k = "h_album"     -> 32
      [] k = "al_count"    -> 18
      [] k = "al_date"     -> 17
      [] k = "al_label"    -> 11
      [] k = "h_tech"      -> 33
      [] k = "t_available" -> 14
      [] k = "t_premium"   -> 17
      [] k = "t_lyrics"    -> 17
      [] k = "t_size"      -> 18
      [] k = "t_explicit"  -> 19
      [] k = "t_version"   -> 12
      [] k = "t_warning"   -> 20
      [] k = "t_major"     -> 11
      [] k = "t_number"    -> 28
      [] k = "h_similar"   -> 24
      [] k = "s_item"      -> 9
      [] k = "h_chart"     -> 27
      [] k = "c_pos"       -> 14
      [] k = "c_pos_listeners" -> 19
      [] k = "l_cover"     -> 33
      [] k = "l_track"     -> 72
      [] k = "short_caption" -> 32

RECURSIVE SumLen(_)
SumLen(strs) == IF strs = <<>> THEN 0 ELSE Len(strs[1]) + SumLen(Tail(strs))

RECURSIVE LinesLen(_)
LinesLen(lines) ==
    IF lines = <<>> THEN 0
    ELSE FixedLen(lines[1].k) + SumLen(lines[1].v) + LinesLen(Tail(lines))

\* len(formatted_info)
TextLen(text) == LinesLen(text.lines)

RECURSIVE Flatten(_)
Flatten(seqs) == IF seqs = <<>> THEN <<>> ELSE seqs[1] \o Flatten(Tail(seqs))

\* lines 156-157, 168-169
ErrorText(info) ==
    Text(<<Line(IF info["error"].where = "basic" THEN "error_basic" ELSE "error_extended",
                <<info["error"].e>>)>>)

format_basic_info(info) ==
    IF IsError(info) THEN ErrorText(info)
    ELSE IF ~({"title", "artists", "duration"} \subseteq DOMAIN info) THEN Raise
    ELSE Text(<<Line("b_title", <<Str(info["title"])>>),
                Line("b_artists", <<Str(info["artists"])>>),
                Line("b_duration", <<Str(info["duration"])>>)>>)

\* lines 171-179
BasicBlock(info) ==
    <<Line("e_title", <<Str(info["title"])>>),
      Line("h_basic", <<>>),
      Line("e_artists", <<Str(info["artists"])>>),
      Line("e_album", <<Str(info["album"])>>),
      Line("e_year", <<Str(info["year"])>>),
      Line("e_duration", <<Str(info["duration"])>>),
      Line("e_genre", <<Str(info["genre"])>>)>>

\* lines 185-191
ArtistLines(artist) ==
    <<Line("a_name", <<Str(artist["name"])>>)>>
    \o (IF "genres" \in DOMAIN artist /\ artist["genres"] # <<>>
        THEN <<Line("a_genres", <<Join(artist["genres"], CommaSpace)>>)>> ELSE <<>>)
    \o (IF "tracks_count" \in DOMAIN artist
        THEN <<Line("a_tracks", <<Str(artist["tracks_count"])>>)>> ELSE <<>>)
    \o (IF "albums_count" \in DOMAIN artist
        THEN <<Line("a_albums", <<Str(artist["albums_count"])>>)>> ELSE <<>>)

\* lines 182-192
ArtistBlock(info) ==
    IF "artists_detailed" \in DOMAIN info
    THEN <<Line("h_artists", <<>>)>>
         \o Flatten([i \in 1..Len(info["artists_detailed"]) |-> ArtistLines(info["artists_detailed"][i])])
         \o <<Line("blank", <<>>)>>
    ELSE <<>>

\* lines 195-202
AlbumBlock(info) ==
    IF "album_tracks_count" \in DOMAIN info
    THEN <<Line("h_album", <<>>),
           Line("al_count", <<Str(info["album_tracks_count"])>>)>>
         \o (IF "album_release_date" \in DOMAIN info
             THEN <<Line("al_date", <<Str(info["album_release_date"])>>)>> ELSE <<>>)
         \o (IF "album_label" \in DOMAIN info
             THEN <<Line("al_label", <<Str(info["album_label"])>>)>> ELSE <<>>)
         \o <<Line("blank", <<>>)>>
    ELSE <<>>

\* lines 205-219
TechBlock(info) ==
    <<Line("h_tech", <<>>),
      Line("t_available", <<Glyph(info["available"])>>),
      Line("t_premium", <<Glyph(Get(info, "available_for_premium_users", TRUE))>>),
      Line("t_lyrics", <<Glyph(Get(info, "lyrics_available", FALSE))>>),
      Line("t_size", <<Str(Get(info, "file_size", Unknown))>>),
      Line("t_explicit", <<Glyph(Get(info, "explicit", FALSE))>>)>>
    \o (IF Truthy(Get(info, "version", None))
        THEN <<Line("t_version", <<info["version"]>>)>> ELSE <<>>)
    \o (IF Truthy(Get(info, "content_warning", None))
        THEN <<Line("t_warning", <<info["content_warning"]>>)>> ELSE <<>>)
    \o (IF Truthy(Get(info, "major", None))
        THEN <<Line("t_major", <<info["major"]>>)>> ELSE <<>>)
    \o <<Line("t_number", <<Str(Get(info, "track_number", <<"0">>))>>)>>

\* lines 222-226
SimilarBlock(info) ==
    IF Get(info, "similar_tracks", <<>>) # <<>>
    THEN LET sim == info["similar_tracks"] IN
         <<Line("h_similar", <<>>)>>
         \o [i \in 1..Min(3, Len(sim)) |->
                Line("s_item", <<IntToStr(i), Str(sim[i]["title"]), Str(sim[i]["artists"])>>)]
         \o <<Line("blank", <<>>)>>
    ELSE <<>>

\* lines 232-238
ProgressEmoji(progress) ==
    IF progress = <<"u", "p">> THEN <<"U+1F53A">>
    ELSE IF progress = <<"d", "o", "w", "n">> THEN <<"U+1F53B">>
    ELSE IF progress = <<"n", "e", "w">> THEN <<"U+1F195">>
    ELSE <<>>

\* lines 240-243
ChartLine(pos) ==
    IF Truthy(Get(pos, "listeners", None))
    THEN Line("c_pos_listeners", <<ProgressEmoji(pos["progress"]), Str(pos["position"]), pos["listeners"]>>)
    ELSE Line("c_pos", <<ProgressEmoji(pos["progress"]), Str(pos["position"])>>)

\* lines 229-243
ChartBlock(info) ==
    IF Get(info, "chart_positions", <<>>) # <<>>
    THEN <<Line("h_chart", <<>>)>>
         \o [i \in 1..Len(info["chart_positions"]) |-> ChartLine(info["chart_positions"][i])]
    ELSE <<>>

\* lines 246-249
LinkBlock(info) ==
    (IF Truthy(info["cover_url"]) THEN <<Line("l_cover", <<info["cover_url"]>>)>> ELSE <<>>)
    \o <<Line("l_track", <<Str(info["track_id"])>>)>>

\* the keys the function subscripts without a guard
ExtendedSubscripts == {"title", "artists", "album", "year", "duration", "genre",
                       "available", "cover_url", "track_id"}

\* a guarded block subscripts a key one of its items lacks
ItemKeyError(info) ==
    \/ /\ "artists_detailed" \in DOMAIN info
       /\ \E i \in 1..Len(info["artists_detailed"]) : "name" \notin DOMAIN info["artists_detailed"][i]
    \/ \E i \in 1..Min(3, Len(Get(info, "similar_tracks", <<>>))) :
           ~({"title", "artists"} \subseteq DOMAIN info["similar_tracks"][i])
    \/ \E i \in 1..Len(Get(info, "chart_positions", <<>>)) :
           ~({"progress", "position"} \subseteq DOMAIN info["chart_positions"][i])

format_extended_info(info) ==
    IF IsError(info) THEN ErrorText(info)
    ELSE IF ~(ExtendedSubscripts \subseteq DOMAIN info) \/ ItemKeyError(info) THEN Raise
    ELSE Text(BasicBlock(info) \o ArtistBlock(info) \o AlbumBlock(info) \o TechBlock(info)
              \o SimilarBlock(info) \o ChartBlock(info) \o LinkBlock(info))

(***************************************************************************)
(* get_extended_track_info and format_extended_info applied to provider    *)
(* outcomes                                                                *)
(***************************************************************************)
Id42 == <<"4", "2">>
Id7  == <<"7">>

Tracks == {TrackOf(SongTitle, n, hasAlbum, full) :
               n \in 0..MaxArtists, hasAlbum \in BOOLEAN, full \in BOOLEAN}

AlbumCalls == {Raised(AlbumDetail(FALSE)), Nothing(AlbumDetail(FALSE)),
               Returned(AlbumDetail(FALSE)), Returned(AlbumDetail(TRUE))}

ArtistCalls == {Raised(ArtistData(FALSE)), Returned(ArtistData(FALSE)), Returned(ArtistData(TRUE))}

SimilarCalls == {Raised(SimilarData(FALSE, 0)), Nothing(SimilarData(FALSE, 0)),
                 Returned(SimilarData(FALSE, 2))}
                \cup {Returned(SimilarData(TRUE, n)) : n \in {0, 2, MaxSimilar}}

ChartCalls(track_id) ==
    {Raised(<<>>), Returned(<<>>),
     Returned(<<ChartItem(Id7, <<"u", "p">>, None)>>),
     Returned(<<ChartItem(Id7, <<"n", "e", "w">>, None),
                ChartItem(track_id, <<"u", "p">>, <<"5", "0", "0">>),
                ChartItem(track_id, <<"f", "l", "a", "t">>, None)>>)}

TrackCalls(track) == {Raised(track), Returned(track)}

EnvsFor(track, track_id) ==
    [main    : TrackCalls(track),
     basic   : TrackCalls(track),
     album   : AlbumCalls,
     artists : [1..Len(track.artists) -> ArtistCalls],
     similar : SimilarCalls,
     chart   : ChartCalls(track_id)]

ProviderInputs ==
    UNION {[track_id : {Id42}, album_id : {None, <<"1", "1">>}, env : EnvsFor(t, Id42)] : t \in Tracks}

InitProvider ==
    /\ input \in ProviderInputs
    /\ output = Pending
    /\ BotInit

ExtendedResult(in) ==
    LET info == get_extended_track_info(in.track_id, in.album_id, in.env)
    IN  [info |-> info, text |-> format_extended_info(info)]

\* the main lookups succeed: a record with the best-effort sections
GetExtendedInfo ==
    /\ ~output.done
    /\ ~IsError(ExtendedResult(input).info)
    /\ output' = Done(ExtendedResult(input))
    /\ UNCHANGED <<input, BotVars>>

\* a main lookup fails: an error record
GetExtendedError ==
    /\ ~output.done
    /\ IsError(ExtendedResult(input).info)
    /\ output' = Done(ExtendedResult(input))
    /\ UNCHANGED <<input, BotVars>>

NextProvider == GetExtendedInfo \/ GetExtendedError

SpecProvider == InitProvider /\ [][NextProvider]_vars

AlbumKeys == {"album_tracks_count", "album_release_date", "album_label", "album_available"}

AlbumLookedUp(in) ==
    /\ Truthy(in.album_id)
    /\ in.env.main.val.albums # <<>>

\* C7: whatever combination of the album, per-artist, similar-tracks and chart
\* lookups fails, get_extended_track_info returns a non-error record once the
\* main track lookups succeed; a failed lookup leaves its section absent or
\* defaulted, and a lookup that succeeded has its section present with its data.
C7_SubLookupsBestEffort ==
    (output.done /\ input.env.main.st = "ok" /\ input.env.basic.st = "ok") =>
        LET env   == input.env
            track == env.main.val
            info  == output.val.info
        IN  /\ ~IsError(info)
            /\ info["title"] = track.title
            /\ info["track_id"] = input.track_id
            \* album detail
            /\ (env.album.st = "fail" => DOMAIN info \cap AlbumKeys = {})
            /\ (AlbumLookedUp(input) /\ env.album.st = "ok") =>
                   /\ AlbumKeys \subseteq DOMAIN info
                   /\ info["album_tracks_count"] =
                          (IF env.album.val.volumes = <<>> THEN <<"0">>
                           ELSE IntToStr(env.album.val.volumes[1]))
                   /\ ("label" \in env.album.val.attrs => info["album_label"] = env.album.val.label)
            \* per-artist detail
            /\ Len(info["artists_detailed"]) = Len(track.artists)
            /\ \A i \in 1..Len(track.artists) :
                   LET a == info["artists_detailed"][i] IN
                   /\ a["name"] = track.artists[i].name
                   /\ (env.artists[i].st = "fail" => DOMAIN a = {"name", "id"})
                   /\ (env.artists[i].st = "ok" =>
                          /\ {"genres", "tracks_count", "albums_count"} \subseteq DOMAIN a
                          /\ ("genres" \in env.artists[i].val.attrs => a["genres"] = env.artists[i].val.genres)
                          /\ ("tracks" \in env.artists[i].val.counts_attrs
                                 => a["tracks_count"] = env.artists[i].val.tracks))
            \* similar tracks
            /\ (env.similar.st = "fail" => info["similar_tracks"] = <<>>)
            /\ (env.similar.st = "ok" /\ "similar_tracks" \in env.similar.val.attrs) =>
                   /\ Len(info["similar_tracks"]) = Min(5, Len(env.similar.val.similar_tracks))
                   /\ \A i \in 1..Len(info["similar_tracks"]) :
                          info["similar_tracks"][i]["title"] = env.similar.val.similar_tracks[i].title
            \* chart position
            /\ (env.chart.st = "fail" => info["chart_positions"] = <<>>)
            /\ (env.chart.st = "ok" =>
                   Len(info["chart_positions"]) =
                       Cardinality({i \in 1..Len(env.chart.val) : env.chart.val[i].track_id = input.track_id}))

C7_Witness ==
    /\ output.done
    /\ input.env.main.st = "ok" /\ input.env.basic.st = "ok"
    /\ AlbumLookedUp(input) /\ input.env.album.st = "fail"
    /\ Len(input.env.artists) = 2
    /\ input.env.artists[1].st = "fail" /\ input.env.artists[2].st = "ok"
    /\ input.env.similar.st = "fail"
    /\ input.env.chart.st = "ok" /\ Len(output.val.info["chart_positions"]) = 2
    /\ ~IsError(output.val.info)
    /\ "album_tracks_count" \notin DOMAIN output.val.info

HeaderKinds == {"h_basic", "h_artists", "h_album", "h_tech", "h_similar", "h_chart"}

\* the data lines that belong under a section header
DataKinds(h) ==
    CASE h = "h_basic"   -> {"e_artists", "e_album", "e_year", "e_duration", "e_genre"}
      [] h = "h_artists" -> {"a_name", "a_genres", "a_tracks", "a_albums"}
      [] h = "h_album"   -> {"al_count", "al_date", "al_label"}
      [] h = "h_tech"    -> {"t_available", "t_premium", "t_lyrics", "t_size", "t_explicit",
                             "t_version", "t_warning", "t_major", "t_number"}
      [] h = "h_similar" -> {"s_item"}
      [] h = "h_chart"   -> {"c_pos", "c_pos_listeners"}

NoEmptySection(lines) ==
    \A i \in 1..Len(lines) :
        lines[i].k \in HeaderKinds =>
            /\ i < Len(lines)
            /\ lines[i + 1].k \in DataKinds(lines[i].k)

\* C8: in the text format_extended_info makes of a record produced by
\* get_extended_track_info, every section header is followed by at least one
\* data line of its section.
C8_NoEmptySection ==
    (output.done /\ ~IsError(output.val.info)) =>
        /\ ~output.val.text.raised
        /\ NoEmptySection(output.val.text.lines)

(***************************************************************************)
(* The formatters applied to records with optional fields missing or null  *)
(***************************************************************************)
MaxAbsent == 1   \* fields missing, and fields null, in one record

FullTrack == TrackOf(SongTitle, MaxArtists, TRUE, TRUE)

\* a record with every field present
FullInfo ==
    get_extended_track_info(Id42, <<"1", "1">>,
        [main    |-> Returned(FullTrack),
         basic   |-> Returned(FullTrack),
         album   |-> Returned(AlbumDetail(TRUE)),
         artists |-> [i \in 1..MaxArtists |-> Returned(ArtistData(TRUE))],
         similar |-> Returned(SimilarData(TRUE, 2)),
         chart   |-> Returned(<<ChartItem(Id42, <<"u", "p">>, <<"5", "0", "0">>)>>)])

\* the fields whose value is a string
StringKeys == {"title", "artists", "duration", "album", "year", "genre", "cover_url",
               "album_id", "album_tracks_count", "album_release_date", "album_label",
               "file_size", "version", "content_warning", "track_number", "major"}

RECURSIVE UpTo(_, _)
\* the subsets of S with at most n elements
UpTo(S, n) == IF n = 0 THEN {{}} ELSE UpTo(S, n - 1) \cup {T \cup {x} : T \in UpTo(S, n - 1), x \in S}

\* info without the keys of missing and with None under the keys of null
Absent(info, missing, null) ==
    [k \in DOMAIN info \ missing |-> IF k \in null THEN None ELSE info[k]]

FormatInputs ==
    {[level |-> l, missing |-> m, null |-> n, info |-> Absent(FullInfo, m, n)] :
        l \in {"basic", "extended"},
        m \in UpTo(DOMAIN FullInfo, MaxAbsent),
        n \in UpTo(StringKeys, MaxAbsent)}

InitFormat ==
    /\ input \in FormatInputs
    /\ output = Pending
    /\ BotInit

FormatBasic ==
    /\ ~output.done
    /\ input.level = "basic"
    /\ output' = Done(format_basic_info(input.info))
    /\ UNCHANGED <<input, BotVars>>

FormatExtended ==
    /\ ~output.done
    /\ input.level = "extended"
    /\ output' = Done(format_extended_info(input.info))
    /\ UNCHANGED <<input, BotVars>>

NextFormat == FormatBasic \/ FormatExtended

SpecFormat == InitFormat /\ [][NextFormat]_vars

\* str(None) appears in the text
LeaksNone(text) ==
    \E i \in 1..Len(text.lines) : \E j \in 1..Len(text.lines[i].v) : text.lines[i].v[j] = StrNone

\* C9: format_basic_info and format_extended_info do not raise on a record
\* with optional fields missing or null, and the text they return never shows
\* None.
C9_NeverRaisesNorLeaksNone ==
    output.done =>
        /\ ~output.val.raised
        /\ ~LeaksNone(output.val)

(***************************************************************************)
(* The bot: start, handle_message, button_callback, error_handler          *)
(*                                                                         *)
(* The dispatcher hands one update at a time to its handler.  last is the  *)
(* run of the handler of the update being processed: the Bot API calls it  *)
(* made, in order, and the track ids it passed to the provider.  Every Bot *)
(* API call either succeeds or raises (network error, rejected request).   *)
(***************************************************************************)
CaptionBudget == 1000

LongText(n) == [i \in 1..n |-> "x"]

UpperChars == <<"A", "B", "C", "D", "E", "F", "G", "H", "I", "J", "K", "L", "M",
                "N", "O", "P", "Q", "R", "S", "T", "U", "V", "W", "X", "Y", "Z">>
LowerChars == <<"a", "b", "c", "d", "e", "f", "g", "h", "i", "j", "k", "l", "m",
                "n", "o", "p", "q", "r", "s", "t", "u", "v", "w", "x", "y", "z">>

\* str.lower()
Lower(s) ==
    [i \in 1..Len(s) |->
        IF \E j \in 1..26 : UpperChars[j] = s[i]
        THEN LowerChars[CHOOSE j \in 1..26 : UpperChars[j] = s[i]]
        ELSE s[i]]

\* line 271
HasKeywords(message_text) ==
    /\ Contains(Lower(message_text), <<"y", "a", "n", "d", "e", "x">>)
    /\ Contains(Lower(message_text), <<"m", "u", "s", "i", "c">>)

RECURSIVE Split(_, _)
\* s.split(sep) for a one-character separator
Split(s, sep) ==
    LET cuts == {i \in 1..Len(s) : s[i] = sep}
    IN  IF cuts = {} THEN <<s>>
        ELSE LET c == CHOOSE i \in cuts : \A j \in cuts : i <= j
             IN  <<SubSeq(s, 1, c - 1)>> \o Split(SubSeq(s, c + 1, Len(s)), sep)

BASIC    == <<"b", "a", "s", "i", "c">>
EXTENDED == <<"e", "x", "t", "e", "n", "d", "e", "d">>

\* f"basic_{track_id}", f"extended_{track_id}"
CallbackData(info_type, track_id) == info_type \o <<"_">> \o track_id

\* as Keyboard, but the second button repeats the first one's callback_data
Keyboard_repeated(track_id) == <<CallbackData(BASIC, track_id), CallbackData(BASIC, track_id)>>

\* lines 282-287: callback_data of the two buttons
Keyboard(track_id) == <<CallbackData(BASIC, track_id), CallbackData(EXTENDED, track_id)>>

\* as ResolveTrackId, but the stored reference is looked up first
ResolveTrackId_stored_first(data_parts, stored) ==
    IF Truthy(stored) THEN stored
    ELSE IF Len(data_parts) > 1 THEN data_parts[2] ELSE None

\* line 311
ResolveTrackId(data_parts, stored) ==
    IF Len(data_parts) > 1 THEN data_parts[2] ELSE stored

\* one Bot API call, ok when it did not raise
Call(site, op, what, len, markup, ok) ==
    [site |-> site, op |-> op, what |-> what, len |-> len, markup |-> markup, ok |-> ok]

NewRun(handler, user, data) ==
    [handler  |-> handler,
     user     |-> user,
     data     |-> data,
     before   |-> user_data,
     provided |-> <<>>,
     calls    |-> <<>>,
     escaped  |-> FALSE]

Called(run, call) == [run EXCEPT !.calls = Append(@, call)]

Provided(run, track_id) == [run EXCEPT !.provided = Append(@, track_id)]

\* update.message is set for a message update and None for a callback query
UpdateHasMessage(run) == run.handler \in {"start", "handle_message"}

\* lines 391-395, ok395: whether its reply_text goes through
error_handler(run, ok395) ==
    IF UpdateHasMessage(run)
    THEN Called(run, Call(395, "reply_text", "generic_error", 38, <<>>, ok395))
    ELSE run

\* the handler returns
Return(run) == last' = run

\* an exception leaves the handler and the dispatcher calls error_handler
Escape(run) ==
    \E ok395 \in BOOLEAN : last' = error_handler([run EXCEPT !.escaped = TRUE], ok395)

\* a call after which the handler returns, unless it raises
LastCall(run, site, op, what, len) ==
    \E ok \in BOOLEAN :
        IF ok THEN Return(Called(run, Call(site, op, what, len, <<>>, TRUE)))
        ELSE Escape(Called(run, Call(site, op, what, len, <<>>, FALSE)))

MessageTexts == {
    <<"h", "t", "t", "p", "s", ":", "/", "/", "m", "u", "s", "i", "c", ".", "y", "a", "n", "d", "e", "x", ".", "r", "u", "/", "t", "r", "a", "c", "k", "/", "4", "2">>,
    <<"Y", "a", "n", "d", "e", "x", " ", "M", "u", "s", "i", "c", " ", "a", "l", "b", "u", "m", "/", "1", "/", "t", "r", "a", "c", "k", "/", "7", "?", "x">>,
    <<"m", "u", "s", "i", "c", ".", "y", "a", "n", "d", "e", "x", ".", "r", "u", "/", "a", "r", "t", "i", "s", "t", "/", "5">>,
    <<"l", "i", "s", "t", "e", "n", ":", " ", "t", "r", "a", "c", "k", "/", "4", "2">>,
    <<"y", "a", "n", "d", "e", "x", ".", "r", "u", "/", "t", "r", "a", "c", "k", "/", "4", "2">> }

\* lines 254-263: the /start command
start(user) ==
    LastCall(NewRun("start", user, <<"/", "s", "t", "a", "r", "t">>), 263, "reply_text", "welcome", 279)

\* lines 266-300
handle_message(user, message_text) ==
    LET run == NewRun("handle_message", user, message_text) IN
    IF HasKeywords(message_text)
    THEN \E ok272 \in BOOLEAN :
            LET acked == Called(run, Call(272, "reply_text", "ack", 23, <<>>, ok272)) IN
            IF ~ok272
            THEN Escape(acked) /\ UNCHANGED <<user_data, presented>>
            ELSE LET track_id == extract_track_id(message_text) IN
                 IF Truthy(track_id)
                 THEN /\ user_data' = [user_data EXCEPT ![user] = track_id]
                      /\ \E ok290 \in BOOLEAN :
                            LET asked == Called(acked, Call(290, "reply_text", "choices", 40,
                                                            Keyboard(track_id), ok290))
                            IN  IF ok290
                                THEN /\ Return(asked)
                                     /\ presented' = presented \cup {Keyboard(track_id)[i] : i \in 1..2}
                                ELSE Escape(asked) /\ UNCHANGED presented
                 ELSE /\ LastCall(acked, 295, "reply_text", "extract_failed", 40)
                      /\ UNCHANGED <<user_data, presented>>
    ELSE /\ LastCall(run, 297, "reply_text", "prompt", 80)
         /\ UNCHANGED <<user_data, presented>>

(***************************************************************************)
(* button_callback                                                         *)
(***************************************************************************)
LongAlbum == 200    \* characters of a long album title
LongTitle == 1100   \* characters of a long track title

\* the tracks the provider returns in the bot's runs
BotTracks == {
    TrackOf(SongTitle, MaxArtists, TRUE, TRUE),
    TrackOf(SongTitle, 0, FALSE, FALSE),
    [TrackOf(SongTitle, 1, TRUE, TRUE) EXCEPT !.albums[1].title = LongText(LongAlbum)],
    TrackOf(LongText(LongTitle), 1, TRUE, TRUE) }

\* the provider calls of get_extended_track_info: the two track lookups
\* succeed or raise one by one, the four other lookups all return or all raise
BotEnvs(track, track_id) ==
    {[main    |-> m,
      basic   |-> b,
      album   |-> IF subs THEN Returned(AlbumDetail(TRUE)) ELSE Raised(AlbumDetail(FALSE)),
      artists |-> [i \in 1..Len(track.artists) |->
                      IF subs THEN Returned(ArtistData(TRUE)) ELSE Raised(ArtistData(FALSE))],
      similar |-> IF subs THEN Returned(SimilarData(TRUE, MaxSimilar)) ELSE Raised(SimilarData(FALSE, 0)),
      chart   |-> IF subs THEN Returned(<<ChartItem(track_id, <<"u", "p">>, <<"5", "0", "0">>)>>)
                  ELSE Raised(<<>>)] :
        m \in TrackCalls(track), b \in TrackCalls(track), subs \in BOOLEAN}

\* lines 324, 352
HasCover(info) == "cover_url" \in DOMAIN info /\ Truthy(info["cover_url"])

Trek == <<"T", "r", "e", "k">>

\* line 358: len(short_caption)
ShortCaptionLen(basic_info) ==
    FixedLen("short_caption") + Len(Str(Get(basic_info, "title", Trek)))
                              + Len(Str(Get(basic_info, "artists", Unknown)))

\* lines 317-337
BasicPath(run, track_id) ==
    \E ok319 \in BOOLEAN :
        LET fetching == Called(run, Call(319, "edit_message_text", "placeholder", 32, <<>>, ok319)) IN
        IF ~ok319 THEN Escape(fetching)
        ELSE \E track \in BotTracks : \E tracks \in TrackCalls(track) :
            LET track_info     == get_basic_track_info(track_id, tracks)
                formatted_info == format_basic_info(track_info)
                n              == TextLen(formatted_info)
                fetched        == Provided(fetching, track_id)
            IN  IF formatted_info.raised THEN Escape(fetched)
                ELSE IF HasCover(track_info)
                THEN \E ok326 \in BOOLEAN :
                        LET photo == Called(fetched, Call(326, "send_photo", "formatted", n, <<>>, ok326)) IN
                        IF ~ok326 THEN LastCall(photo, 337, "edit_message_text", "formatted", n)
                        ELSE \E ok332 \in BOOLEAN :
                                LET deleted == Called(photo, Call(332, "delete", "none", 0, <<>>, ok332)) IN
                                IF ok332 THEN Return(deleted)
                                ELSE LastCall(deleted, 337, "edit_message_text", "formatted", n)
                ELSE LastCall(fetched, 337, "edit_message_text", "formatted", n)

\* lines 382-388: the except clause, which falls through to the final edit
ExceptPath(run, n) ==
    \E ok385 \in BOOLEAN :
        LET edited == Called(run, Call(385, "edit_message_text", "formatted", n, <<>>, ok385)) IN
        IF ~ok385 THEN Escape(edited)
        ELSE LastCall(edited, 388, "edit_message_text", "formatted", n)

\* lines 380-381
DeletePlaceholder(run, n) ==
    \E ok380 \in BOOLEAN :
        LET deleted == Called(run, Call(380, "delete", "none", 0, <<>>, ok380)) IN
        IF ok380 THEN Return(deleted) ELSE ExceptPath(deleted, n)

\* lines 339-388
ExtendedPath(run, track_id) ==
    \E ok341 \in BOOLEAN :
        LET fetching == Called(run, Call(341, "edit_message_text", "placeholder", 35, <<>>, ok341)) IN
        IF ~ok341 THEN Escape(fetching)
        ELSE \E track \in BotTracks : \E tracks \in TrackCalls(track) : \E env \in BotEnvs(track, track_id) :
            LET basic_info     == get_basic_track_info(track_id, tracks)
                album_id       == IF ~IsError(basic_info) THEN Get(basic_info, "album_id", None) ELSE None
                track_info     == get_extended_track_info(track_id, album_id, env)
                formatted_info == format_extended_info(track_info)
                n              == TextLen(formatted_info)
                fetched        == Provided(Provided(fetching, track_id), track_id)
            IN  IF formatted_info.raised THEN Escape(fetched)
                ELSE IF HasCover(basic_info)
                THEN IF n > CaptionBudget
                     THEN \E ok359 \in BOOLEAN :
                            LET photo == Called(fetched, Call(359, "send_photo", "short_caption",
                                                              ShortCaptionLen(basic_info), <<>>, ok359)) IN
                            IF ~ok359 THEN ExceptPath(photo, n)
                            ELSE \E ok366 \in BOOLEAN :
                                    LET full == Called(photo, Call(366, "send_message", "formatted", n, <<>>, ok366)) IN
                                    IF ~ok366 THEN ExceptPath(full, n) ELSE DeletePlaceholder(full, n)
                     ELSE \E ok374 \in BOOLEAN :
                            LET photo == Called(fetched, Call(374, "send_photo", "formatted", n, <<>>, ok374)) IN
                            IF ~ok374 THEN ExceptPath(photo, n) ELSE DeletePlaceholder(photo, n)
                ELSE LastCall(fetched, 388, "edit_message_text", "formatted", n)

\* lines 303-388
button_callback(user, data) ==
    LET run == NewRun("button_callback", user, data) IN
    \E ok306 \in BOOLEAN :
        LET answered == Called(run, Call(306, "answer", "none", 0, <<>>, ok306)) IN
        IF ~ok306 THEN Escape(answered)
        ELSE LET data_parts == Split(data, "_")
                 info_type  == data_parts[1]
                 track_id   == ResolveTrackId(data_parts, user_data[user])
             IN  IF ~Truthy(track_id)
                 THEN LastCall(answered, 314, "edit_message_text", "not_found", 29)
                 ELSE IF info_type = BASIC THEN BasicPath(answered, track_id)
                 ELSE IF info_type = EXTENDED THEN ExtendedPath(answered, track_id)
                 ELSE Return(answered)

(***************************************************************************)
(* The dispatcher                                                          *)
(***************************************************************************)
Idle == last = NoUpdate

\* a user sends the /start command
Start ==
    /\ Idle
    /\ \E user \in Users : start(user)
    /\ UNCHANGED <<input, output, user_data, presented>>

\* a user sends a text message
HandleMessage ==
    /\ Idle
    /\ \E user \in Users : \E message_text \in MessageTexts : handle_message(user, message_text)
    /\ UNCHANGED <<input, output>>

\* as ButtonCallback, but handling the press drops the user's stored reference
ButtonCallback_forgets ==
    /\ Idle
    /\ \E user \in Users : \E data \in presented :
            /\ button_callback(user, data)
            /\ user_data' = [user_data EXCEPT ![user] = None]
    /\ UNCHANGED <<input, output, presented>>

\* a user presses one of the buttons shown so far
ButtonCallback ==
    /\ Idle
    /\ \E user \in Users : \E data \in presented : button_callback(user, data)
    /\ UNCHANGED <<input, output, user_data, presented>>

\* the handler's run is over and the dispatcher takes the next update
UpdateDone ==
    /\ ~Idle
    /\ last' = NoUpdate
    /\ UNCHANGED <<input, output, user_data, presented>>

\* the process is started again: user_data is kept in memory only, the
\* buttons stay in the chats
Restart ==
    /\ Idle
    /\ user_data # [u \in Users |-> None]
    /\ user_data' = [u \in Users |-> None]
    /\ UNCHANGED <<input, output, presented, last>>

Init ==
    /\ input = None
    /\ output = Pending
    /\ BotInit

Next == Start \/ HandleMessage \/ ButtonCallback \/ UpdateDone \/ Restart

Spec == Init /\ [][Next]_vars

(***************************************************************************)
(* Properties of the handlers                                              *)
(***************************************************************************)
IsCallbackRun == last.handler = "button_callback"
IsMessageRun  == last.handler = "handle_message"

CallsOf(run) == {run.calls[i] : i \in 1..Len(run.calls)}

MessageOps == {"reply_text", "edit_message_text", "send_photo", "send_message"}

\* a message reached the user
Delivered(run) == \E c \in CallsOf(run) : c.op \in MessageOps /\ c.ok

\* the generic error reply was sent, delivered or not
ErrorReported(run) == \E c \in CallsOf(run) : c.what = "generic_error"

\* C1: whatever fails while a button press is handled, the user gets a
\* message: one of the handler's messages is delivered, or the top-level
\* handler sends the generic error reply.
C1_FailureIsAnswered ==
    IsCallbackRun => (Delivered(last) \/ ErrorReported(last))

\* the identifier embedded in callback_data, None when there is no underscore
EmbeddedId(data) ==
    IF \E i \in 1..Len(data) : data[i] = "_"
    THEN SubSeq(data, (CHOOSE i \in 1..Len(data) : data[i] = "_") + 1, Len(data))
    ELSE None

ProvidedIds(run) == {run.provided[i] : i \in 1..Len(run.provided)}

\* C2 (as stated): when the session state holds a reference, that stored
\* reference is the one passed to the provider.
C2_StoredReferenceFirst ==
    (IsCallbackRun /\ Truthy(last.before[last.user])) =>
        ProvidedIds(last) \subseteq {last.before[last.user]}

\* C2 (amended): the identifier embedded in the choice payload is the one
\* passed to the provider whenever the payload carries one; the stored
\* reference is used only when the payload carries none.
C2_PayloadFirst ==
    IsCallbackRun =>
        ProvidedIds(last) \subseteq
            {IF Truthy(EmbeddedId(last.data)) THEN EmbeddedId(last.data) ELSE last.before[last.user]}

C2_Witness ==
    /\ IsCallbackRun
    /\ Truthy(last.before[last.user])
    /\ last.before[last.user] # EmbeddedId(last.data)
    /\ ProvidedIds(last) = {EmbeddedId(last.data)}

PhotoSites == {326, 359, 374}

PhotoFailed(run) == \E c \in CallsOf(run) : c.site \in PhotoSites /\ ~c.ok

\* the text-only replies with the formatted content
TextFallbacks(run) ==
    {i \in 1..Len(run.calls) :
        run.calls[i].op = "edit_message_text" /\ run.calls[i].what = "formatted"}

\* C3: when sending the cover image fails, the handler falls back to a single
\* text-only reply with the formatted content, and when that reply fails too
\* a generic error is reported to the user.
C3_SingleFallbackThenGenericError ==
    (IsCallbackRun /\ PhotoFailed(last)) =>
        /\ Cardinality(TextFallbacks(last)) = 1
        /\ (\E i \in TextFallbacks(last) : ~last.calls[i].ok) => ErrorReported(last)

\* the calls that show the two choices
ChoiceCalls(run) == {c \in CallsOf(run) : c.markup # <<>>}

TwoChoices(run, track_id) ==
    \E c \in CallsOf(run) :
        /\ c.ok
        /\ Len(c.markup) = 2
        /\ c.markup[1] = BASIC \o <<"_">> \o track_id
        /\ c.markup[2] = EXTENDED \o <<"_">> \o track_id
        /\ {c.markup[1], c.markup[2]} \subseteq presented

Recognised(run) == HasKeywords(run.data) /\ Truthy(extract_track_id(run.data))

\* the call at the given line raised
FailedAt(run, site) == \E c \in CallsOf(run) : c.site = site /\ ~c.ok

\* C4 (as stated): every text with both keywords and an extractable
\* identifier gets the identifier stored and the two choices presented; any
\* other text leaves the session state unchanged and presents no choices.
C4_StoresAndPresents ==
    IsMessageRun =>
        IF Recognised(last)
        THEN /\ user_data[last.user] = extract_track_id(last.data)
             /\ TwoChoices(last, extract_track_id(last.data))
        ELSE /\ user_data = last.before
             /\ ChoiceCalls(last) = {}

\* C4 (amended): when handle_message runs to completion on a text with both
\* keywords and an extractable identifier, the identifier is stored in the
\* sender's user_data and exactly the two choices, both carrying it, are
\* presented; no other user's entry changes.  When the acknowledgement
\* (line 272) raises nothing is stored and nothing presented, when the reply
\* with the choices (line 290) raises the identifier is stored and no choice
\* is presented.  Any other text leaves the session state unchanged and
\* presents no choices.
C4_StoresAndPresentsWhenDelivered ==
    IsMessageRun =>
        /\ \A u \in Users \ {last.user} : user_data[u] = last.before[u]
        /\ IF Recognised(last)
           THEN /\ ~last.escaped =>
                    /\ user_data[last.user] = extract_track_id(last.data)
                    /\ TwoChoices(last, extract_track_id(last.data))
                    /\ Cardinality(ChoiceCalls(last)) = 1
                /\ FailedAt(last, 272) => (user_data = last.before /\ ChoiceCalls(last) = {})
                /\ FailedAt(last, 290) =>
                       /\ user_data[last.user] = extract_track_id(last.data)
                       /\ \A c \in ChoiceCalls(last) : ~c.ok
                /\ last.escaped => (FailedAt(last, 272) \/ FailedAt(last, 290))
                /\ \A c \in ChoiceCalls(last) :
                       /\ user_data[last.user] = extract_track_id(last.data)
                       /\ c.markup = <<BASIC \o <<"_">> \o extract_track_id(last.data),
                                       EXTENDED \o <<"_">> \o extract_track_id(last.data)>>
           ELSE /\ user_data = last.before
                /\ ChoiceCalls(last) = {}

C4_Witness ==
    /\ IsMessageRun
    /\ ~last.escaped
    /\ Truthy(last.before[last.user])
    /\ last.before[last.user] # Id7
    /\ user_data[last.user] = Id7
    /\ TwoChoices(last, Id7)

\* C10: an image is never sent with a caption longer than the budget: the
\* formatted text is the caption only when it fits, and an image sent with
\* the short caption is followed by the full text as a message of its own.
C10_CaptionWithinBudget ==
    IsCallbackRun =>
        \A i \in 1..Len(last.calls) :
            last.calls[i].op = "send_photo" =>
                /\ last.calls[i].len <= CaptionBudget
                /\ (last.calls[i].what = "short_caption" /\ last.calls[i].ok) =>
                       /\ i < Len(last.calls)
                       /\ last.calls[i + 1].op = "send_message"
                       /\ last.calls[i + 1].what = "formatted"

\* the calls that delivered the final formatted content to the user
ContentDeliveries(run) ==
    {i \in 1..Len(run.calls) :
        /\ run.calls[i].ok
        /\ run.calls[i].what = "formatted"
        /\ run.calls[i].op \in {"send_photo", "send_message", "edit_message_text"}}

ImageSent(run) == \E c \in CallsOf(run) : c.op = "send_photo" /\ c.ok

PlaceholderDeleted(run) == \E c \in CallsOf(run) : c.op = "delete" /\ c.ok

\* the placeholder was edited with the final text
PlaceholderReplaced(run) ==
    \E c \in CallsOf(run) : c.op = "edit_message_text" /\ c.what = "formatted" /\ c.ok

\* C11: a handled button press ends either with the placeholder replaced by
\* the final content and no image sent, or with an image sent and the
\* placeholder deleted; never with both an image sent and the placeholder
\* edited with the final text, and the final content is delivered at most
\* once.
C11_ReplacedOrImageAndDeleted ==
    (IsCallbackRun /\ ~last.escaped) =>
        /\ ~(ImageSent(last) /\ PlaceholderReplaced(last))
        /\ ImageSent(last) => PlaceholderDeleted(last)
        /\ Cardinality(ContentDeliveries(last)) <= 1

\* the buttons a step adds carry the identifier extracted from the message
\* whose handling added them
ButtonsCarryExtractedId ==
    \A d \in presented' \ presented :
        /\ IsMessageRun'
        /\ Truthy(extract_track_id(last'.data))
        /\ EmbeddedId(d) = extract_track_id(last'.data)

\* C12: the identifier passed to the provider for a button press is always
\* the one embedded in the pressed button's payload, which is the one
\* extracted from the message that produced the button, whatever the stored
\* reference has become since; and handling a press leaves the stored
\* references as they were.
C12_ProvidesButtonsOwnId ==
    /\ [](IsCallbackRun =>
            /\ last.data \in presented
            /\ Truthy(EmbeddedId(last.data))
            /\ ProvidedIds(last) \subseteq {EmbeddedId(last.data)}
            /\ user_data = last.before)
    /\ [][ButtonsCarryExtractedId]_vars

C12_Witness ==
    /\ IsCallbackRun
    /\ EmbeddedId(last.data) = Id42
    /\ last.before[last.user] = Id7
    /\ user_data[last.user] = Id7
    /\ Len(last.provided) > 0
    /\ \A i \in 1..Len(last.provided) : last.provided[i] = Id42

====
